---- MODULE Spec2Model ----
(***************************************************************************)
(* Model of util/file_operations.py, class Resampler: the two resampling   *)
(* strategies (bearing: one recording per file of a directory; kbm:        *)
(* measurements carved out of one base-rate table) and the files they      *)
(* read, delete and append to.                                             *)
(*                                                                         *)
(* Scaling.  The source's literal 4000 (default sampling_rate, the name of *)
(* the base table <data_path>_4000.csv and the divisor of line 75) is      *)
(* modelled by the one definition Rate4000, scaled to 4 so that tables of  *)
(* a few measurements can be enumerated.  Every place that reads the       *)
(* literal in the source reads Rate4000 here, and every place that reads   *)
(* the parameter sampling_rate reads the parameter.                        *)
(*                                                                         *)
(* Numbers.  Input samples are integers.  A mean is kept as an exact       *)
(* reduced fraction [num, den]; den = 0 is NaN (the mean of no samples).   *)
(***************************************************************************)
EXTENDS Integers, Sequences, FiniteSets, TLC

VARIABLES dataset, num_features, dir, dirOrder, files, last, calls

vars == <<dataset, num_features, dir, dirOrder, files, last, calls>>

-----------------------------------------------------------------------------
(* Bounds of the model *)

MaxLen == 9        \* rows of the kbm base table: 0..MaxLen
MaxFileLen == 3    \* rows of a bearing file: 1..MaxFileLen
MaxSize == 4       \* resample_size is drawn from 1..MaxSize
MaxRate == 5       \* sampling_rate of a direct kbm call: 1..MaxRate
MaxCalls == 2      \* calls of a Resampler method in one behaviour

(* Program constants *)

Rate4000 == 4          \* the literal 4000, scaled (see above)
BearingChannels == 4   \* reshape(1, 4)

Sizes == 1..MaxSize
Rates == 1..MaxRate
FileKeys == Sizes \cup {Rate4000}
Names == {"a", "b"}
Widths == {BearingChannels - 1, BearingChannels}

-----------------------------------------------------------------------------
(* Files and tables *)

NoFile == [exists |-> FALSE, rows |-> <<>>]
File(rows) == [exists |-> TRUE, rows |-> rows]

NaN == [num |-> 0, den |-> 0]

RECURSIVE GCD(_, _)
GCD(a, b) == IF b = 0 THEN a ELSE GCD(b, a % b)

Frac(s, n) == LET g == GCD(s, n) IN [num |-> s \div g, den |-> n \div g]

Abs(x) == IF x < 0 THEN -x ELSE x

Min(a, b) == IF a < b THEN a ELSE b
Max(a, b) == IF a > b THEN a ELSE b

(* Input tables: row i of the "ramp" table differs from every other row and
   has samples of both signs; the "zero" table has only zero samples. *)
InputRow(pat, i, w) ==
    [c \in 1..w |-> IF pat = "zero" THEN 0 ELSE IF c % 2 = 1 THEN i ELSE 0 - i]

InputTable(pat, len, w) == [i \in 1..len |-> InputRow(pat, i, w)]

Width(df) == IF df = <<>> THEN 0 ELSE Len(df[1])

-----------------------------------------------------------------------------
(* Library functions, by what they do *)

(* df.iloc[:stop] : a Python slice; a negative stop counts from the end,
   and stop = -0 = 0 is the empty slice. *)
iloc_to(df, stop) ==
    LET e == IF stop < 0 THEN Max(Len(df) + stop, 0) ELSE Min(stop, Len(df))
    IN  SubSeq(df, 1, e)

(* np.array_split(ary, Nsections), Nsections >= 1: the first Ntotal %
   Nsections sections have Ntotal // Nsections + 1 rows, the rest
   Ntotal // Nsections; sections are the slices between the cumulated sizes. *)
array_split_dropping_extras(ary, Nsections) ==
    LET Neach == Len(ary) \div Nsections
    IN  [i \in 1..Nsections |-> SubSeq(ary, (i - 1) * Neach + 1, i * Neach)]

array_split(ary, Nsections) ==
    LET Ntotal == Len(ary)
        Neach == Ntotal \div Nsections
        extras == Ntotal % Nsections
        div_point(i) == IF i <= extras THEN i * (Neach + 1)
                        ELSE extras * (Neach + 1) + (i - extras) * Neach
    IN  [i \in 1..Nsections |-> SubSeq(ary, div_point(i - 1) + 1, div_point(i))]

RECURSIVE SumCol(_, _, _)
SumCol(chunk, c, k) ==
    IF k = 0 THEN 0 ELSE Abs(chunk[k][c]) + SumCol(chunk, c, k - 1)

RECURSIVE SumColSigned(_, _, _)
SumColSigned(chunk, c, k) ==
    IF k = 0 THEN 0 ELSE chunk[k][c] + SumColSigned(chunk, c, k - 1)

(* df_chunk.abs().mean() of a chunk of a table with w columns *)
mean_without_abs(df_chunk, w) ==
    [c \in 1..w |-> IF df_chunk = <<>> THEN NaN
                    ELSE LET s == SumColSigned(df_chunk, c, Len(df_chunk))
                         IN  IF s < 0 THEN [num |-> s, den |-> Len(df_chunk)]
                             ELSE Frac(s, Len(df_chunk))]

mean_abs(df_chunk, w) ==
    [c \in 1..w |-> IF df_chunk = <<>> THEN NaN
                    ELSE Frac(SumCol(df_chunk, c, Len(df_chunk)), Len(df_chunk))]

(* to_csv(path, mode='a', header=False): creates the file when it is absent *)
to_csv_overwrite(f, row) == File(<<row>>)

to_csv_append(f, row) == File(f.rows \o <<row>>)

(* if os.path.exists(p): os.remove(p) *)
keep_file(fs, n) == fs

remove_if_exists(fs, n) == [fs EXCEPT ![n] = NoFile]

-----------------------------------------------------------------------------
(* The loop shared by both strategies (lines 48-54 and 84-89): each
   recording is split into resample_size chunks, each chunk is reduced to
   one row, the row is reshaped to (1, width) and appended to the output.
   reshape raises ValueError when the row has another number of channels;
   that happens at the first chunk of the recording, so the rows of the
   recordings before it are already in the file. *)

RECURSIVE append_rows_with(_, _, _)
append_rows_with(f, rows, k) ==
    IF k = 0 THEN f
    ELSE to_csv_append(append_rows_with(f, rows, k - 1), rows[k])

append_rows(f, rows) == append_rows_with(f, rows, Len(rows))

Result(fs, status, recs, wins, rows) ==
    [files |-> fs, status |-> status, recs |-> recs, wins |-> wins, rows |-> rows]

resample_recordings(fs, recs, resample_size, width) ==
    LET bad == {i \in 1..Len(recs) : Width(recs[i]) # width}
        stop == IF bad = {} THEN Len(recs) + 1
                ELSE CHOOSE i \in bad : \A j \in bad : i <= j
        loaded == SubSeq(recs, 1, Min(stop, Len(recs)))
        wins == [i \in 1..Len(loaded) |-> array_split(loaded[i], resample_size)]
        rows == [t \in 1..((stop - 1) * resample_size) |->
                    LET i == ((t - 1) \div resample_size) + 1
                        j == ((t - 1) % resample_size) + 1
                    IN  mean_abs(wins[i][j], Width(loaded[i]))]
        out == IF rows = <<>> THEN fs[resample_size]
               ELSE append_rows(fs[resample_size], rows)
    IN  Result([fs EXCEPT ![resample_size] = out],
               IF bad = {} THEN "ok" ELSE "ValueError",
               loaded, wins, rows)

(* resample_data_bearing, lines 37-54 *)
resample_data_bearing(fs, d, order, resample_size) ==
    resample_recordings(fs, [i \in 1..Len(order) |-> d[order[i]]],
                        resample_size, BearingChannels)

(* the assert of line 63 *)
assert_removed(resample_size, sampling_rate) == TRUE

assert_sizes_differ(resample_size, sampling_rate) == resample_size # sampling_rate

(* line 74: df.iloc[:-(len(df) % sampling_rate)] *)
drop_ending_rows(df, sampling_rate) ==
    iloc_to(df, 0 - (Len(df) % sampling_rate))

(* line 75: int(len(df) / 4000), the number of sections array_split makes *)
num_measurements(df) == Len(df) \div Rate4000

(* resample_data_kbm, lines 56-89 *)
resample_data_kbm(fs, nf, resample_size, sampling_rate) ==
    IF ~assert_sizes_differ(resample_size, sampling_rate)
    THEN Result(fs, "AssertionError", <<>>, <<>>, <<>>)
    ELSE LET fs1 == remove_if_exists(fs, resample_size)
         IN  IF ~fs1[Rate4000].exists
             THEN Result(fs1, "FileNotFoundError", <<>>, <<>>, <<>>)
             ELSE LET df == drop_ending_rows(fs1[Rate4000].rows, sampling_rate)
                  IN  IF num_measurements(df) <= 0
                      THEN Result(fs1, "ValueError", <<>>, <<>>, <<>>)
                      ELSE resample_recordings(
                               fs1, array_split(df, num_measurements(df)),
                               resample_size, nf)

(* resample_data, lines 24-35 *)
resample_data(fs, ds, nf, d, order, resample_size) ==
    LET fs1 == remove_if_exists(fs, resample_size)
    IN  IF ds = "kbm" THEN resample_data_kbm(fs1, nf, resample_size, Rate4000)
        ELSE resample_data_bearing(fs1, d, order, resample_size)

-----------------------------------------------------------------------------
(* State.
   dataset, num_features : the fields set by __init__ (data_path itself is
                           the prefix of every file name and is left out);
   dir      : the bearing directory <data_path>/, file name -> table;
   dirOrder : the order in which os.scandir enumerates dir; it belongs to
              the file system and stays as it is until Reenumerate;
   files    : the files <data_path>_<k>.csv, k -> file; for a kbm data path
              files[Rate4000] is the base-rate table;
   last     : the last call of a Resampler method and what it did: the method,
              resample_size n, sampling_rate, how it ended (status: "ok" or
              the exception), the enumeration order it saw, the output file
              before the call (pre), the recordings it loaded (recs), the
              windows of each (wins), the rows it appended (rows), and the
              method and size of the call before it (prev);
   calls    : the number of calls so far. *)

Orders(S) == {o \in [1..Cardinality(S) -> S] : \A i, j \in 1..Cardinality(S) :
                                                   o[i] = o[j] => i = j}

Recordings ==
    {InputTable("ramp", len, w) : len \in 1..MaxFileLen, w \in Widths}
        \cup {InputTable("zero", 2, BearingChannels)}

NoCall == [op |-> "none", n |-> 0, rate |-> 0, status |-> "none", order |-> <<>>,
           pre |-> NoFile, recs |-> <<>>, wins |-> <<>>, rows |-> <<>>,
           prev |-> [op |-> "none", n |-> 0]]

Call(op, n, rate, order, pre, res) ==
    [op |-> op, n |-> n, rate |-> rate, status |-> res.status, order |-> order,
     pre |-> pre, recs |-> res.recs, wins |-> res.wins, rows |-> res.rows,
     prev |-> [op |-> last.op, n |-> last.n]]

InitKbm ==
    /\ dataset = "kbm"
    /\ num_features \in Widths
    /\ dir = <<>>
    /\ dirOrder = <<>>
    /\ \E pat \in {"ramp", "zero"}, len \in 0..MaxLen :
          files = [k \in FileKeys |->
                      IF k = Rate4000
                      THEN File(InputTable(pat, len, BearingChannels))
                      ELSE NoFile]

InitBearing ==
    /\ dataset = "bearing"
    /\ num_features = BearingChannels
    /\ \E S \in SUBSET Names : /\ dir \in [S -> Recordings]
                               /\ dirOrder \in Orders(S)
    /\ files = [k \in FileKeys |-> NoFile]

Init ==
    /\ InitKbm \/ InitBearing
    /\ last = NoCall
    /\ calls = 0

(* Resampler.resample_data(resample_size) *)
ResampleData ==
    /\ calls < MaxCalls
    /\ \E n \in Sizes :
          LET res == resample_data(files, dataset, num_features, dir, dirOrder, n)
          IN  /\ files' = res.files
              /\ last' = Call("resample_data", n,
                              IF dataset = "kbm" THEN Rate4000 ELSE 0,
                              dirOrder, files[n], res)
    /\ calls' = calls + 1
    /\ UNCHANGED <<dataset, num_features, dir, dirOrder>>

(* Resampler.resample_data_kbm(resample_size, sampling_rate), called directly *)
ResampleDataKbm ==
    /\ calls < MaxCalls
    /\ dataset = "kbm"
    /\ \E n \in Sizes, rate \in Rates :
          LET res == resample_data_kbm(files, num_features, n, rate)
          IN  /\ files' = res.files
              /\ last' = Call("resample_data_kbm", n, rate, dirOrder, files[n], res)
    /\ calls' = calls + 1
    /\ UNCHANGED <<dataset, num_features, dir, dirOrder>>

(* Resampler.resample_data_bearing(resample_size), called directly *)
ResampleDataBearing ==
    /\ calls < MaxCalls
    /\ dataset = "bearing"
    /\ \E n \in Sizes :
          LET res == resample_data_bearing(files, dir, dirOrder, n)
          IN  /\ files' = res.files
              /\ last' = Call("resample_data_bearing", n, 0, dirOrder, files[n], res)
    /\ calls' = calls + 1
    /\ UNCHANGED <<dataset, num_features, dir, dirOrder>>

(* The environment: os.scandir yields the entries "in arbitrary order"; the
   same files with the same contents may be enumerated in another order
   (a copy of the directory, another file system). *)
Reenumerate ==
    /\ dataset = "bearing"
    /\ dirOrder' \in Orders(DOMAIN dir) \ {dirOrder}
    /\ UNCHANGED <<dataset, num_features, dir, files, last, calls>>

Next == ResampleData \/ ResampleDataKbm \/ ResampleDataBearing \/ Reenumerate

Spec == Init /\ [][Next]_vars

-----------------------------------------------------------------------------
(* Vocabulary of the properties *)

KbmCall(c) ==
    \/ c.op = "resample_data_kbm"
    \/ c.op = "resample_data" /\ dataset = "kbm"

BearingCall(c) ==
    \/ c.op = "resample_data_bearing"
    \/ c.op = "resample_data" /\ dataset = "bearing"

(* the step is a call of a Resampler method *)
IsCall == calls' = calls + 1

RECURSIVE Concat(_)
Concat(ss) == IF ss = <<>> THEN <<>> ELSE Head(ss) \o Concat(Tail(ss))

RECURSIVE AbsTotal(_, _)
AbsTotal(w, c) ==
    IF w = <<>> THEN 0
    ELSE (IF Head(w)[c] < 0 THEN 0 - Head(w)[c] ELSE Head(w)[c]) + AbsTotal(Tail(w), c)

(* r[c] is the arithmetic mean of |w[k][c]| over the rows k of w *)
IsMeanAbs(r, w) ==
    /\ Len(r) = Len(w[1])
    /\ \A c \in 1..Len(r) : /\ r[c].den > 0
                            /\ r[c].num * Len(w) = r[c].den * AbsTotal(w, c)

(* window j (1..n) of the near-equal partition of rec into n windows *)
WindowOf(rec, n, j) ==
    LET q == Len(rec) \div n
        r == Len(rec) % n
        lo == (j - 1) * q + (IF j - 1 < r THEN j - 1 ELSE r)
        hi == j * q + (IF j < r THEN j ELSE r)
    IN  SubSeq(rec, lo + 1, hi)

(* the base-rate table of a kbm data path *)
BaseRows == files[Rate4000].rows

(* the kbm strategy got as far as truncating the base table *)
KbmTruncated ==
    /\ KbmCall(last)
    /\ last.status \notin {"AssertionError", "FileNotFoundError"}

-----------------------------------------------------------------------------
(* C1 - truncation law, as claimed: a kbm run at the default base rate R over
   a base table of L >= R rows (its columns matching num_features) processes
   exactly floor(L / R) measurements, which together are the rows
   1 .. L - (L mod R) of the table, each exactly once and in order; the
   trailing L mod R rows are in none.  Stated at the default rate, where the
   literal of line 75 and the parameter agree.  The code violates it when L
   is an exact multiple of R: iloc[:-0] keeps no row. *)
C1_TruncationLaw ==
    (/\ KbmTruncated
     /\ last.rate = Rate4000
     /\ Len(BaseRows) >= last.rate
     /\ Width(BaseRows) = num_features)
    => /\ Len(last.recs) = Len(BaseRows) \div last.rate
       /\ Concat(last.recs) =
              SubSeq(BaseRows, 1, Len(BaseRows) - (Len(BaseRows) % last.rate))

(* C9 - measurement size, as claimed: for every sampling_rate, the k-th
   measurement that is split into windows is the rows
   (k-1)*sampling_rate + 1 .. k*sampling_rate of the table (stated for the
   runs that complete).  The code violates it for a sampling_rate other
   than the literal of line 75. *)
C9_MeasurementSize ==
    (KbmTruncated /\ last.status = "ok") =>
        \A k \in 1..Len(last.recs) :
            last.recs[k] = SubSeq(BaseRows, (k - 1) * last.rate + 1, k * last.rate)


-----------------------------------------------------------------------------
(* C2 - idempotent rebuild: when resample_data(n) has just run and runs again
   with the same n, nothing having changed in between (the directory is
   enumerated as in the first run), the output table <data_path>_<n>.csv
   after the second run is the one the first run left: the same rows, or no
   file in both cases. *)
C2_IdempotentRebuild ==
    [][(/\ IsCall
        /\ last.op = "resample_data"
        /\ last'.op = "resample_data"
        /\ last'.n = last.n
        /\ last.order = dirOrder)
       => files'[last.n] = files[last.n]]_vars

(* C2 witness: the second of two resample_data calls with the same size has
   completed and left a table with rows. *)
C2_Witness ==
    /\ last.op = "resample_data"
    /\ last.prev = [op |-> "resample_data", n |-> last.n]
    /\ last.status = "ok"
    /\ last.pre.exists
    /\ Len(files[last.n].rows) >= 2

-----------------------------------------------------------------------------
(* C3 - resample-size guard, as claimed: after a kbm-strategy call with
   resample_size = sampling_rate the call has failed with the assertion
   error and no output file of that size exists.  The code violates the
   last part on a direct call: the table an earlier run left stays. *)
C3_NoOutputAfterGuard ==
    (KbmCall(last) /\ last.n = last.rate)
    => (last.status = "AssertionError" /\ ~files[last.n].exists)

(* C3 amended: a kbm-strategy call with resample_size = sampling_rate fails
   with the assertion error and appends no row; resample_data_kbm has then
   touched no file: after a direct call every file is as before the call,
   and after a call through resample_data the only change is that
   <data_path>_<resample_size>.csv, removed by resample_data, does not exist. *)
C3_GuardBeforeAnyOutput ==
    [][(IsCall /\ KbmCall(last') /\ last'.n = last'.rate)
       => /\ last'.status = "AssertionError"
          /\ last'.rows = <<>>
          /\ last'.op = "resample_data_kbm" => files' = files
          /\ last'.op = "resample_data" =>
                 files' = [files EXCEPT ![last'.n] = NoFile]]_vars

(* C3 witness: a direct call failed the guard while a table of that size,
   left by an earlier run, exists. *)
C3_Witness ==
    /\ last.op = "resample_data_kbm"
    /\ last.n = last.rate
    /\ last.status = "AssertionError"
    /\ files[last.n].exists
    /\ files[last.n].rows # <<>>

-----------------------------------------------------------------------------
(* C4 - reproducible order, as claimed: two completed bearing runs of
   resample_data with the same size over the same files with the same
   contents leave the same table, whatever the order in which the directory
   is enumerated.  The code violates it: the rows follow the enumeration. *)
C4_ReproducibleOrder ==
    [][(/\ IsCall
        /\ dataset = "bearing"
        /\ last.op = "resample_data"
        /\ last'.op = "resample_data"
        /\ last'.n = last.n
        /\ last.status = "ok"
        /\ last'.status = "ok")
       => files'[last.n] = files[last.n]]_vars

-----------------------------------------------------------------------------
(* C5 - partition coverage: every recording of the last call with at least
   resample_size rows was split into exactly resample_size windows that,
   concatenated in order, are the recording; their sizes sum to its length
   and differ by at most 1. *)
C5_PartitionCoverage ==
    \A i \in 1..Len(last.recs) :
        LET rec == last.recs[i]
            w == last.wins[i]
        IN  (1 <= last.n /\ last.n <= Len(rec))
            => /\ Len(w) = last.n
               /\ Concat(w) = rec
               /\ Len(Concat(w)) = Len(rec)
               /\ \A a, b \in 1..Len(w) : Len(w[a]) - Len(w[b]) <= 1

(* C5 witness: a recording was split into at least 2 windows of unequal size *)
C5_Witness ==
    \E i \in 1..Len(last.recs) :
        /\ last.n >= 2
        /\ last.n <= Len(last.recs[i])
        /\ Len(last.recs[i]) % last.n # 0
        /\ Len(last.wins[i]) = last.n

-----------------------------------------------------------------------------
(* The t-th row the last call appended is the row of window j of recording i *)
RecOfRow(t) == ((t - 1) \div last.n) + 1
WinOfRow(t) == ((t - 1) % last.n) + 1

(* C6 - reduction correctness: the rows the last call appended are the last
   rows of the output table, and each row written for a non-empty window is,
   channel by channel, the arithmetic mean of the absolute values of the
   window; an all-zero window gives an all-zero row and a window of one
   sample gives that sample's absolute values. *)
C6_ReductionCorrect ==
    LET out == files[last.n].rows
        k == Len(last.rows)
    IN  k > 0 =>
        /\ Len(out) >= k
        /\ \A t \in 1..k :
              LET r == out[Len(out) - k + t]
                  w == last.wins[RecOfRow(t)][WinOfRow(t)]
              IN  w # <<>> =>
                  /\ IsMeanAbs(r, w)
                  /\ (\A x \in 1..Len(w), c \in 1..Len(r) : w[x][c] = 0)
                         => \A c \in 1..Len(r) : r[c] = [num |-> 0, den |-> 1]
                  /\ Len(w) = 1
                         => \A c \in 1..Len(r) :
                                r[c] = [num |-> IF w[1][c] < 0 THEN 0 - w[1][c]
                                                ELSE w[1][c],
                                        den |-> 1]

(* C6 witness: a row was written for a window of several samples, one of
   them negative. *)
C6_Witness ==
    \E t \in 1..Len(last.rows) :
        LET w == last.wins[RecOfRow(t)][WinOfRow(t)]
        IN  /\ Len(w) >= 2
            /\ \E x \in 1..Len(w), c \in 1..Len(w[1]) : w[x][c] < 0

-----------------------------------------------------------------------------
(* a bearing run that started with no output file *)
CleanBearingRun ==
    /\ BearingCall(last)
    /\ last.status = "ok"
    /\ last.op = "resample_data_bearing" => ~last.pre.exists

(* C7 - bearing end-to-end shape: after a completed bearing run with size N
   that started with no output file, over F files of at least N rows each,
   the table has F * N rows and row (f-1)*N + j (counting from 1) is the
   mean-of-absolute-values of window j of the f-th processed file. *)
C7_BearingShape ==
    (CleanBearingRun /\ \A x \in DOMAIN dir : Len(dir[x]) >= last.n)
    => LET out == files[last.n].rows
           F == Len(last.order)
       IN  /\ Len(out) = F * last.n
           /\ \A f \in 1..F, j \in 1..last.n :
                  IsMeanAbs(out[(f - 1) * last.n + j],
                            WindowOf(dir[last.order[f]], last.n, j))

(* C7 witness: such a run over 2 files with at least 2 windows each *)
C7_Witness ==
    /\ CleanBearingRun
    /\ \A x \in DOMAIN dir : Len(dir[x]) >= last.n
    /\ Len(last.order) = 2
    /\ last.n >= 2
    /\ dir[last.order[1]] # dir[last.order[2]]

-----------------------------------------------------------------------------
(* C8 - clean start of the bearing strategy, as claimed: after any call of
   the bearing strategy the output table holds exactly the rows that call
   appended.  The code violates it on a direct call of
   resample_data_bearing: the rows are appended to the table already there. *)
C8_BearingCleanStart ==
    BearingCall(last) => files[last.n].rows = last.rows

-----------------------------------------------------------------------------
(* C10 - inputs are read-only, as claimed: a call of resample_data(n)
   changes no file but <data_path>_<n>.csv, and leaves the bearing files and
   the kbm base-rate table as they were.  The code violates it on a kbm
   data path for n equal to the base rate: the file it removes first is the
   base-rate table. *)
C10_InputsReadOnly ==
    [][(IsCall /\ last'.op = "resample_data")
       => /\ dir' = dir
          /\ \A k \in FileKeys \ {last'.n} : files'[k] = files[k]
          /\ dataset = "kbm" => files'[Rate4000] = files[Rate4000]]_vars

====
